---- MODULE Spec2Model ----
(***************************************************************************)
(* Acquisition pipeline of biogui's CP2130 / WANDmini data sources:        *)
(*   - Cp2130DataSourceWorker  (biogui/data_sources/cp2130.py)             *)
(*   - USBSpiDataSourceWorker + CP2130Reader (biogui/data_sources/         *)
(*     spi_usb.py)                                                         *)
(*   - the interface descriptors WANDmini.py, interface_wandmini.py and    *)
(*     WANDmini_interface.py                                               *)
(* A behaviour is the life of ONE worker object: Init chooses which data   *)
(* source is configured.  Python indices are 0-based, TLA+ sequences are   *)
(* 1-based: At(s, i) reads Python's s[i].                                  *)
(***************************************************************************)
EXTENDS Integers, Sequences, FiniteSets, TLC

VARIABLES
  worker,          \* which DataSourceWorker this behaviour is about
  interface,       \* interface module handed to Cp2130DataSourceWorker
  wideInput,       \* Cp2130DataSourceWorker._wideInput
  buffer,          \* self._buffer / self.buffer (QByteArray)
  collected_data,  \* self._collected_data
  crc_flags,       \* self._crc_flags
  sample_count,    \* self._sample_count
  crc_count,       \* self._crc_count
  disk,            \* the file at self._csv_file
  cpHandle,        \* state of self._cp2130Handle
  streaming,       \* session is between a completed start and the next stop
  emitted,         \* every dataPacketReady emission, in order
  errors,          \* number of errorOccurred emissions
  hwLog,           \* commands issued to the device, in order
  last,            \* what the most recent handler did
  calls,           \* number of startCollecting / stopCollecting calls so far
  stops,           \* number of stopCollecting calls so far
  devPos,          \* offset of the next byte of the device's stream
  ingested,        \* bytes appended to buffer since it was last reset
  mark,            \* Len(emitted) when buffer was last reset
  runStart,        \* Len(emitted) when the last start completed
  runs,            \* number of starts that completed
  handle,          \* USBSpiDataSourceWorker.handle
  thread,          \* USBSpiDataSourceWorker.thread (the CP2130Reader)
  sampleQueue,     \* module-level sampleQueue
  pollTimer,       \* pollTimer.isActive()
  mainPc,          \* position of the GUI thread inside stopCollecting
  claimed,         \* USB interface 0 is claimed
  readLog,         \* bytes returned by bulkRead, in read order
  delivered,       \* bytes moved from sampleQueue into buffer, in order
  readStart,       \* Len(readLog) when the last start completed
  longRead,        \* a read since the last buffer reset exceeded packetSize
  testPacket,      \* input of the decoder specification
  testDecoded      \* its output

vars == << worker, interface, wideInput, buffer, collected_data, crc_flags,
           sample_count, crc_count, disk, cpHandle, streaming, emitted,
           errors, hwLog, last, calls, stops, devPos, ingested, mark, runStart, runs,
           handle,
           thread, sampleQueue, pollTimer, mainPc, claimed, readLog,
           delivered, readStart, longRead, testPacket, testDecoded >>

cpVars  == << collected_data, crc_flags, sample_count, crc_count, disk,
              cpHandle, streaming, hwLog, longRead >>
spiVars == << handle, thread, sampleQueue, pollTimer, mainPc, claimed,
              readLog, delivered, readStart >>
cfgVars == << worker, interface, wideInput >>
tstVars == << testPacket, testDecoded >>

----------------------------------------------------------------------------
(* Bounds of the model *)

MaxBytes == 600       \* bytes the device delivers in one behaviour
MaxStarts == 2        \* startCollecting calls in one behaviour
MaxStops == 2         \* stopCollecting calls in one behaviour

(* Inputs *)
CpReadLens  == {0, 120, 200, 320}   \* lengths returned by cp2130_libusb_read
SpiReadLens == {0, 67, 134}         \* lengths returned by bulkRead(0x81, packetSize, 500)
StatusBytes == {198, 57}            \* status byte the device puts in a packet
Outcome     == {"ok", "fail"}       \* result of a transport call

(* Program constants *)
cpPacketSize  == 200
spiPacketSize == 134
nCh           == 67
ValidStatus   == 198

----------------------------------------------------------------------------
(* Generic helpers *)

At(s, i) == s[i + 1]

RECURSIVE Flatten(_)
Flatten(ss) == IF ss = << >> THEN << >> ELSE Head(ss) \o Flatten(Tail(ss))

Pow2(n) == 2 ^ n

RECURSIVE BitOr(_, _)
BitOr(a, b) ==
  IF a = 0 THEN b
  ELSE IF b = 0 THEN a
  ELSE (IF a % 2 = 1 \/ b % 2 = 1 THEN 1 ELSE 0) + 2 * BitOr(a \div 2, b \div 2)

Shl(a, n) == a * Pow2(n)

RECURSIVE Exp2Above(_, _)
Exp2Above(v, e) == IF v \div Pow2(e) < 16777216 THEN e ELSE Exp2Above(v, e + 1)

(* np.asarray(values, dtype=np.float32): round to a 24-bit significand,
   ties to even *)
Float32(v) ==
  IF v < 16777216 THEN v
  ELSE LET e    == Exp2Above(v, 1)
           q    == v \div Pow2(e)
           rem  == v % Pow2(e)
           half == Pow2(e - 1)
           q1   == IF rem > half \/ (rem = half /\ q % 2 = 1) THEN q + 1 ELSE q
       IN  q1 * Pow2(e)

----------------------------------------------------------------------------
(* Interface descriptors *)

packetSize(w) == IF w = "spi_usb" THEN spiPacketSize ELSE cpPacketSize

Bytes(v)    == [kind |-> "bytes", val |-> v]
Delay(v)    == [kind |-> "float", val |-> v]
Callable(v) == [kind |-> "callable", val |-> v]

startSeq(itf) ==
  IF itf = "WANDmini"
    THEN << Bytes("x00"), Delay("0.1"), Bytes("x01") >>
    ELSE << Callable("_flush_fifo"), Delay("0.1"), Callable("_start_stream") >>

stopSeq(itf) ==
  IF itf = "WANDmini"
    THEN << Bytes("x00"), Delay("0.1") >>
    ELSE << Callable("_stop_stream"), Delay("0.1") >>

decodeFn_swapped(data) ==
  IF At(data, 1) = ValidStatus
    THEN LET raw_bytes == SubSeq(data, 3, Len(data))
             values    == [j \in 1..nCh |->
                             BitOr(Shl(At(raw_bytes, 2 * (j - 1)), 8),
                                   At(raw_bytes, 2 * (j - 1) + 1))]
         IN  [emg |-> << [j \in 1..nCh |-> Float32(values[j])] >>]
    ELSE [emg |-> << [j \in 1..nCh |-> 0] >>]

decodeFn_noCheck(data) ==
  LET raw_bytes == SubSeq(data, 3, Len(data))
      values    == [j \in 1..nCh |->
                      BitOr(Shl(At(raw_bytes, 2 * (j - 1) + 1), 8),
                            At(raw_bytes, 2 * (j - 1)))]
  IN  [emg |-> << [j \in 1..nCh |-> Float32(values[j])] >>]

(* values = [raw_bytes[2*i + 1] << 8 | raw_bytes[2*i] for i in range(nCh)] *)
decodeFn(data) ==
  IF At(data, 1) = ValidStatus
    THEN LET raw_bytes == SubSeq(data, 3, Len(data))
             values    == [j \in 1..nCh |->
                             BitOr(Shl(At(raw_bytes, 2 * (j - 1) + 1), 8),
                                   At(raw_bytes, 2 * (j - 1)))]
         IN  [emg |-> << [j \in 1..nCh |-> Float32(values[j])] >>]
    ELSE [emg |-> << [j \in 1..nCh |-> 0] >>]

----------------------------------------------------------------------------
(* The device: a stream of packets; a read returns the next len bytes.
   The byte at offset 1 of every packet is the status byte. *)

Payload(p) == (7 * p + 3) % 256

Chunk(pos, len, st, psize) ==
  [i \in 1..len |-> IF (pos + i - 1) % psize = 1 THEN st
                    ELSE Payload(pos + i - 1)]

----------------------------------------------------------------------------
(* Initial state: the worker right after __init__ *)

NoOp == [op |-> "init", wideFail |-> FALSE, seqFail |-> FALSE, ranSeq |-> FALSE,
         err |-> FALSE, wrote |-> FALSE, csvFail |-> FALSE, wasStreaming |-> FALSE,
         got |-> 0]

NoThread == [pc |-> "none", running |-> FALSE]

NoRecord == [row |-> << >>, crc |-> FALSE]

NoFile == [exists |-> FALSE, rows |-> << >>, crc |-> << >>, run |-> 0]

InitState ==
  /\ buffer = << >>
  /\ collected_data = << >>
  /\ crc_flags = << >>
  /\ sample_count = 0
  /\ crc_count = 0
  /\ disk = NoFile
  /\ cpHandle = "open"
  /\ streaming = FALSE
  /\ emitted = << >>
  /\ errors = 0
  /\ hwLog = << >>
  /\ last = NoOp
  /\ calls = 0
  /\ stops = 0
  /\ devPos = 0
  /\ ingested = << >>
  /\ mark = 0
  /\ runStart = 0
  /\ runs = 0
  /\ handle = "None"
  /\ thread = NoThread
  /\ sampleQueue = << >>
  /\ pollTimer = FALSE
  /\ mainPc = "idle"
  /\ claimed = FALSE
  /\ readLog = << >>
  /\ delivered = << >>
  /\ readStart = 0
  /\ longRead = FALSE
  /\ testDecoded = NoRecord

Init ==
  /\ worker \in {"cp2130", "spi_usb"}
  /\ IF worker = "cp2130"
       THEN interface \in {"WANDmini", "interface_wandmini"} /\ wideInput \in BOOLEAN
       ELSE interface = "WANDmini_interface" /\ wideInput = FALSE
  /\ testPacket = << >>
  /\ InitState

----------------------------------------------------------------------------
(* Cp2130DataSourceWorker.
   The worker keeps no session state of its own; `streaming` records that a
   startCollecting ran to its end and no stopCollecting was called since.
   _collectData has no caller inside the worker: the poll tick is driven by
   the collaborator, which polls a streaming session.
   WANDminiComm reports a failed transfer through its return value (writeReg
   and configureDevice use it as a bool); startCollecting and stopCollecting
   drop the value returned by the sequence commands, so `sf` (some command of
   the sequence failed) only shows in `last`.  df.to_csv raises on failure. *)

StartCmd(c) ==
  IF c.kind = "bytes"
    THEN IF c.val = "x00" THEN << "flush_radio_fifo" >>
         ELSE IF c.val = "x01" THEN << "startStream" >>
         ELSE << >>
  ELSE IF c.kind = "float" THEN << "sleep" >>
  ELSE << >>

StopCmd(c) ==
  IF c.kind = "bytes"
    THEN IF c.val = "x00" THEN << "stopStream" >> ELSE << >>
  ELSE IF c.kind = "float" THEN << "sleep" >>
  ELSE << >>

RECURSIVE RunStartSeq(_)
RunStartSeq(seq) ==
  IF seq = << >> THEN << >> ELSE StartCmd(Head(seq)) \o RunStartSeq(Tail(seq))

RECURSIVE RunStopSeq(_)
RunStopSeq(seq) ==
  IF seq = << >> THEN << >> ELSE StopCmd(Head(seq)) \o RunStopSeq(Tail(seq))

HasHw(cmds) == \E k \in 1..Len(cmds) : cmds[k] # "sleep"

WideInputFailed_ignored(wi, wr) == FALSE

\* if self._wideInput: if not WANDminiComm.writeReg(...): ... return
WideInputFailed(wi, wr) == wi /\ wr # "ok"

ShouldSave_always(n) == n >= 0

\* if self._sample_count > 0:
ShouldSave(n) == n > 0

CpFrame_strict(buf, psize) ==
  IF Len(buf) > psize
    THEN [buffer |-> SubSeq(buf, psize + 1, Len(buf)), packets |-> << SubSeq(buf, 1, psize) >>]
    ELSE [buffer |-> buf, packets |-> << >>]

CpFrame_dropByte(buf, psize) ==
  IF Len(buf) >= psize
    THEN [buffer |-> SubSeq(buf, psize + 2, Len(buf)), packets |-> << SubSeq(buf, 1, psize) >>]
    ELSE [buffer |-> buf, packets |-> << >>]

\* if self._buffer.size() >= self._packetSize: mid(0, packetSize); remove(0, packetSize)
CpFrame(buf, psize) ==
  IF Len(buf) >= psize
    THEN [buffer |-> SubSeq(buf, psize + 1, Len(buf)), packets |-> << SubSeq(buf, 1, psize) >>]
    ELSE [buffer |-> buf, packets |-> << >>]

\* decoded = self._decodeFn(packet, ...); row decoded["emg"][0], flag packet[1] != 198
ProcessPacket(packet) ==
  [row |-> At(decodeFn(packet).emg, 0), crc |-> At(packet, 1) # 198]

Cp2130_startCollecting ==
  /\ worker = "cp2130"
  /\ calls - stops < MaxStarts
  /\ stops' = stops
  /\ calls' = calls + 1
  /\ \E wr \in Outcome, sf \in BOOLEAN :
       LET cmds  == RunStartSeq(startSeq(interface))
           wfail == wideInput /\ wr = "fail"
       IN
       IF WideInputFailed(wideInput, wr)
         THEN /\ hwLog' = Append(hwLog, "writeReg(0,0x0C,1)")
              /\ errors' = errors + 1
              /\ last' = [NoOp EXCEPT !.op = "start", !.wideFail = wfail,
                                      !.err = TRUE, !.wasStreaming = streaming]
              /\ UNCHANGED << sample_count, crc_count, streaming, runStart, runs >>
         ELSE /\ hwLog' = hwLog \o (IF wideInput THEN << "writeReg(0,0x0C,1)" >> ELSE << >>) \o cmds
              /\ sample_count' = 0
              /\ crc_count' = 0
              /\ streaming' = TRUE
              /\ runStart' = Len(emitted)
              /\ runs' = runs + 1
              /\ errors' = errors
              /\ last' = [NoOp EXCEPT !.op = "start", !.wideFail = wfail,
                                      !.seqFail = (sf /\ HasHw(cmds)),
                                      !.ranSeq = TRUE,
                                      !.wasStreaming = streaming]
  /\ UNCHANGED << buffer, collected_data, crc_flags, disk, cpHandle, emitted,
                  devPos, ingested, mark, longRead >>
  /\ UNCHANGED << cfgVars, spiVars, tstVars >>

Cp2130_stopCollecting ==
  /\ worker = "cp2130"
  /\ stops < MaxStops
  /\ stops' = stops + 1
  /\ calls' = calls + 1
  /\ \E sf \in BOOLEAN, csv \in Outcome :
       LET cmds  == RunStopSeq(stopSeq(interface))
           save  == ShouldSave(sample_count)
           table == [exists |-> TRUE, rows |-> collected_data, crc |-> crc_flags,
                     run |-> runs]
       IN
       /\ streaming' = FALSE
       /\ errors' = errors
       /\ IF save /\ csv = "fail"
            THEN \* df.to_csv raises: the rest of the handler is skipped
                 /\ hwLog' = hwLog \o cmds
                 /\ last' = [NoOp EXCEPT !.op = "stop", !.seqFail = (sf /\ HasHw(cmds)),
                                         !.ranSeq = TRUE,
                                         !.wrote = TRUE, !.csvFail = TRUE,
                                         !.wasStreaming = streaming]
                 /\ UNCHANGED << disk, cpHandle, buffer, ingested, mark, longRead >>
            ELSE /\ hwLog' = hwLog \o cmds \o << "exit_cp2130" >>
                 /\ disk' = IF save THEN table ELSE disk
                 /\ cpHandle' = "released"
                 /\ buffer' = << >>
                 /\ ingested' = << >>
                 /\ longRead' = FALSE
                 /\ mark' = Len(emitted)
                 /\ last' = [NoOp EXCEPT !.op = "stop", !.seqFail = (sf /\ HasHw(cmds)),
                                         !.ranSeq = TRUE,
                                         !.wrote = save,
                                         !.wasStreaming = streaming]
  /\ UNCHANGED << collected_data, crc_flags, sample_count, crc_count, emitted,
                  devPos, runStart, runs >>
  /\ UNCHANGED << cfgVars, spiVars, tstVars >>

HasData_always(data) == TRUE

\* data = WANDminiComm.cp2130_libusb_read(...); if data:
HasData(data) == data # << >>

Cp2130_collectData ==
  /\ worker = "cp2130"
  /\ streaming
  /\ \E len \in CpReadLens, st \in StatusBytes :
       /\ devPos + len <= MaxBytes
       /\ LET data == Chunk(devPos, len, st, cpPacketSize)
              res  == CpFrame(buffer \o data, cpPacketSize)
          IN
          /\ devPos' = devPos + len
          /\ last' = [NoOp EXCEPT !.op = "poll", !.wasStreaming = streaming, !.got = len]
          /\ IF HasData(data)
               THEN /\ ingested' = ingested \o data
                    /\ longRead' = (longRead \/ len > cpPacketSize)
                    /\ buffer' = res.buffer
                    /\ IF res.packets # << >>
                         THEN LET packet == res.packets[1]
                                  rec    == ProcessPacket(packet)
                              IN
                              /\ sample_count' = sample_count + 1
                              /\ crc_count' = IF At(packet, 1) # 198 THEN crc_count + 1
                                              ELSE crc_count
                              /\ collected_data' = Append(collected_data, rec.row)
                              /\ crc_flags' = Append(crc_flags, rec.crc)
                              /\ emitted' = Append(emitted, packet)
                         ELSE UNCHANGED << sample_count, crc_count, collected_data,
                                           crc_flags, emitted >>
               ELSE UNCHANGED << ingested, longRead, buffer, sample_count, crc_count,
                                 collected_data, crc_flags, emitted >>
  /\ UNCHANGED << disk, cpHandle, streaming, errors, hwLog, calls, stops, mark, runStart, runs >>
  /\ UNCHANGED << cfgVars, spiVars, tstVars >>

----------------------------------------------------------------------------
(* CP2130Reader: the reader thread *)

\* run(): self._running = True
CP2130Reader_run ==
  /\ worker = "spi_usb"
  /\ thread.pc = "started"
  /\ thread' = [pc |-> "loop", running |-> TRUE]
  /\ UNCHANGED << buffer, emitted, errors, last, calls, stops, devPos, ingested, mark, runStart, runs >>
  /\ UNCHANGED << handle, sampleQueue, pollTimer, mainPc, claimed, readLog, delivered,
                  readStart >>
  /\ UNCHANGED << cfgVars, cpVars, tstVars >>

\* while self._running:
CP2130Reader_loop ==
  /\ worker = "spi_usb"
  /\ thread.pc = "loop"
  /\ thread' = [thread EXCEPT !.pc = IF thread.running THEN "io" ELSE "done"]
  /\ UNCHANGED << buffer, emitted, errors, last, calls, stops, devPos, ingested, mark, runStart, runs >>
  /\ UNCHANGED << handle, sampleQueue, pollTimer, mainPc, claimed, readLog, delivered,
                  readStart >>
  /\ UNCHANGED << cfgVars, cpVars, tstVars >>

\* bulkWrite, bulkRead, sampleQueue.put; an exception ends the thread
CP2130Reader_transfer ==
  /\ worker = "spi_usb"
  /\ thread.pc = "io"
  /\ \E io \in Outcome, len \in SpiReadLens :
       IF io = "fail"
         THEN /\ errors' = errors + 1
              /\ thread' = [thread EXCEPT !.pc = "done"]
              /\ UNCHANGED << sampleQueue, readLog, devPos >>
         ELSE /\ devPos + len <= MaxBytes
              /\ LET data == Chunk(devPos, len, ValidStatus, spiPacketSize) IN
                 /\ devPos' = devPos + len
                 /\ readLog' = readLog \o data
                 /\ sampleQueue' = IF data # << >> THEN Append(sampleQueue, data)
                                   ELSE sampleQueue
              /\ thread' = [thread EXCEPT !.pc = "loop"]
              /\ errors' = errors
  /\ UNCHANGED << buffer, emitted, last, calls, stops, ingested, mark, runStart, runs >>
  /\ UNCHANGED << handle, pollTimer, mainPc, claimed, delivered, readStart >>
  /\ UNCHANGED << cfgVars, cpVars, tstVars >>

----------------------------------------------------------------------------
(* USBSpiDataSourceWorker.
   startCollecting, stopCollecting and _collectData run on the GUI thread and
   are atomic with respect to each other; the reader thread interleaves with
   them.  Opening the device or claiming interface 0 may raise; claiming an
   interface that is already claimed raises.  wait() in CP2130Reader.stop()
   blocks the GUI thread until the reader has left run(). *)

USBSpi_startCollecting ==
  /\ worker = "spi_usb"
  /\ mainPc = "idle"
  /\ calls - stops < MaxStarts
  /\ stops' = stops
  /\ calls' = calls + 1
  /\ \E open \in Outcome, claim \in Outcome :
       IF open = "fail" \/ claim = "fail" \/ claimed
         THEN /\ errors' = errors + 1
              /\ last' = [NoOp EXCEPT !.op = "start", !.seqFail = TRUE, !.err = TRUE,
                                      !.ranSeq = TRUE, !.wasStreaming = pollTimer]
              /\ UNCHANGED << handle, thread, pollTimer, claimed, runStart, runs, readStart >>
         ELSE /\ claimed' = TRUE
              /\ handle' = "dev"
              /\ thread' = [pc |-> "started", running |-> FALSE]
              /\ pollTimer' = TRUE
              /\ runStart' = Len(emitted)
              /\ readStart' = Len(readLog)
              /\ runs' = runs + 1
              /\ errors' = errors
              /\ last' = [NoOp EXCEPT !.op = "start", !.ranSeq = TRUE,
                                      !.wasStreaming = pollTimer]
  /\ UNCHANGED << buffer, emitted, devPos, ingested, mark >>
  /\ UNCHANGED << sampleQueue, mainPc, readLog, delivered >>
  /\ UNCHANGED << cfgVars, cpVars, tstVars >>

\* stopCollecting up to CP2130Reader.stop(): self._running = False; self.wait()
USBSpi_stopCollecting ==
  /\ worker = "spi_usb"
  /\ mainPc = "idle"
  /\ stops < MaxStops
  /\ stops' = stops + 1
  /\ calls' = calls + 1
  /\ thread' = IF thread.pc # "none" THEN [thread EXCEPT !.running = FALSE] ELSE thread
  /\ mainPc' = "wait"
  /\ last' = [NoOp EXCEPT !.op = "stopping", !.wasStreaming = pollTimer]
  /\ UNCHANGED << buffer, emitted, errors, devPos, ingested, mark, runStart, runs >>
  /\ UNCHANGED << handle, sampleQueue, pollTimer, claimed, readLog, delivered, readStart >>
  /\ UNCHANGED << cfgVars, cpVars, tstVars >>

ReaderExited_nowait(t) == TRUE

\* if self.thread: self.thread.stop() -- wait() returns once run() has returned
ReaderExited(t) == t.pc \in {"none", "done"}

\* wait() has returned: release the interface, stop the timer, clear the buffer
USBSpi_stopCollecting_rest ==
  /\ worker = "spi_usb"
  /\ mainPc = "wait"
  /\ ReaderExited(thread)
  /\ claimed' = IF handle # "None" THEN FALSE ELSE claimed
  /\ handle' = "None"
  /\ pollTimer' = FALSE
  /\ buffer' = << >>
  /\ ingested' = << >>
  /\ mark' = Len(emitted)
  /\ mainPc' = "idle"
  /\ last' = [NoOp EXCEPT !.op = "stop", !.wasStreaming = last.wasStreaming]
  /\ UNCHANGED << emitted, errors, calls, stops, devPos, runStart, runs >>
  /\ UNCHANGED << thread, sampleQueue, readLog, delivered, readStart >>
  /\ UNCHANGED << cfgVars, cpVars, tstVars >>

RECURSIVE Drain_lifo(_, _)
Drain_lifo(q, buf) == IF q = << >> THEN buf ELSE Drain_lifo(Tail(q), Head(q) \o buf)

\* while not sampleQueue.empty(): self.buffer.append(sampleQueue.get_nowait())
RECURSIVE Drain(_, _)
Drain(q, buf) == IF q = << >> THEN buf ELSE Drain(Tail(q), buf \o Head(q))

\* while self.buffer.size() >= pkg_size: emit mid(0, pkg_size); remove(0, pkg_size)
RECURSIVE Frame(_, _, _)
Frame(buf, pkts, psize) ==
  IF Len(buf) >= psize
    THEN Frame(SubSeq(buf, psize + 1, Len(buf)), Append(pkts, SubSeq(buf, 1, psize)), psize)
    ELSE [buffer |-> buf, packets |-> pkts]

USBSpi_collectData ==
  /\ worker = "spi_usb"
  /\ pollTimer
  /\ mainPc = "idle"
  /\ LET buf1 == Drain(sampleQueue, buffer)
         res  == Frame(buf1, << >>, spiPacketSize)
     IN
     /\ sampleQueue' = << >>
     /\ delivered' = delivered \o Flatten(sampleQueue)
     /\ ingested' = ingested \o Flatten(sampleQueue)
     /\ buffer' = res.buffer
     /\ emitted' = emitted \o res.packets
  /\ last' = [NoOp EXCEPT !.op = "poll", !.wasStreaming = pollTimer,
                          !.got = Len(Flatten(sampleQueue))]
  /\ UNCHANGED << errors, calls, stops, devPos, mark, runStart, runs >>
  /\ UNCHANGED << handle, thread, pollTimer, mainPc, claimed, readLog, readStart >>
  /\ UNCHANGED << cfgVars, cpVars, tstVars >>

----------------------------------------------------------------------------
Next ==
  \/ Cp2130_startCollecting
  \/ Cp2130_stopCollecting
  \/ Cp2130_collectData
  \/ USBSpi_startCollecting
  \/ USBSpi_stopCollecting
  \/ USBSpi_stopCollecting_rest
  \/ USBSpi_collectData
  \/ CP2130Reader_run
  \/ CP2130Reader_loop
  \/ CP2130Reader_transfer

Spec == Init /\ [][Next]_vars

(* The same program with the scheduling the platform gives: a started reader
   thread keeps being scheduled (each bulk transfer returns within its
   timeout), and the GUI thread goes on once wait() has returned. *)
SpecFair ==
  /\ Spec
  /\ WF_vars(CP2130Reader_run)
  /\ WF_vars(CP2130Reader_loop)
  /\ WF_vars(CP2130Reader_transfer)
  /\ WF_vars(USBSpi_stopCollecting_rest)

----------------------------------------------------------------------------
(* The decoder on its own: Init draws a packet, Decode applies lines 251-258
   of _collectData (decodeFn and the CRC flag) to it. *)

TestAs     == {0, 1, 7, 37, 255}
TestBs     == {0, 1, 128, 200, 255}
TestStatus == {198, 0, 197, 199, 255}

TestPacket(a, b, st) ==
  [i \in 1..cpPacketSize |-> IF i = 2 THEN st ELSE (a * (i - 1) + b) % 256]

InitDecode ==
  /\ worker = "decoder"
  /\ interface \in {"WANDmini", "interface_wandmini"}
  /\ wideInput = FALSE
  /\ testPacket \in {TestPacket(a, b, st) : a \in TestAs, b \in TestBs, st \in TestStatus}
  /\ InitState

Decode ==
  /\ worker = "decoder"
  /\ testDecoded.row = << >>
  /\ testDecoded' = ProcessPacket(testPacket)
  /\ UNCHANGED << buffer, emitted, errors, last, calls, stops, devPos, ingested, mark,
                  runStart, runs, testPacket >>
  /\ UNCHANGED << cfgVars, cpVars, spiVars >>

NextDecode == Decode

SpecDecode == InitDecode /\ [][NextDecode]_vars

----------------------------------------------------------------------------
(* Properties *)

RunPackets == SubSeq(emitted, mark + 1, Len(emitted))

StreamingNow == IF worker = "spi_usb" THEN pollTimer ELSE streaming

\* C1: the packets emitted since the buffer was last reset, concatenated in
\* emission order and followed by the bytes still in the buffer, are exactly
\* the bytes ingested since that reset; every emitted packet has packetSize
\* bytes (both workers).
C1_FramingConservesBytes ==
  /\ Flatten(RunPackets) \o buffer = ingested
  /\ \A k \in 1..Len(emitted) : Len(emitted[k]) = packetSize(worker)

C1_Witness ==
  /\ worker = "cp2130"
  /\ Len(RunPackets) >= 2
  /\ buffer # << >>

\* C2: the hand-off queue neither reorders, duplicates nor drops chunks: the
\* bytes moved into the buffer followed by the bytes still queued are the
\* bytes the reader read, in read order, and the packets of the current
\* framing sequence followed by the buffer are the most recently delivered
\* bytes, in that same order.
C2_QueueIsFifo ==
  worker = "spi_usb" =>
    /\ delivered \o Flatten(sampleQueue) = readLog
    /\ LET out == Flatten(RunPackets) \o buffer
           n   == Len(delivered) - Len(out)
       IN  /\ n >= 0
           /\ out = SubSeq(delivered, n + 1, Len(delivered))

C2_Witness ==
  /\ worker = "spi_usb"
  /\ Len(sampleQueue) >= 2
  /\ Len(emitted) >= 1
  /\ buffer # << >>

\* C3: a 200-byte packet whose byte[1] is 198 decodes to a record that is not
\* flagged, with 67 channel values, value i being
\* packet[2+2i+1] * 256 + packet[2+2i], hence in 0..65535.
C3_DecodeValid ==
  (testDecoded.row # << >> /\ At(testPacket, 1) = 198) =>
    /\ Len(testPacket) = 200
    /\ testDecoded.crc = FALSE
    /\ DOMAIN testDecoded.row = 1..67
    /\ \A i \in 0..66 :
         /\ At(testDecoded.row, i) = At(testPacket, 2 + 2 * i + 1) * 256 + At(testPacket, 2 + 2 * i)
         /\ At(testDecoded.row, i) \in 0..65535

C3_Witness ==
  /\ testDecoded.row # << >>
  /\ At(testPacket, 1) = 198
  /\ \E i \in 0..66 :
       /\ At(testDecoded.row, i) > 255
       /\ At(testDecoded.row, i) % 256 # At(testDecoded.row, i) \div 256

\* C4: every packet whose byte[1] is not 198 still yields a row, the row has
\* 67 values that are all zero, and its CRC flag is set.
C4_InvalidPacketZeroRow ==
  worker = "cp2130" =>
    /\ Len(collected_data) = Len(emitted)
    /\ Len(crc_flags) = Len(emitted)
    /\ \A k \in 1..Len(emitted) :
         At(emitted[k], 1) # 198 =>
           /\ crc_flags[k]
           /\ DOMAIN collected_data[k] = 1..67
           /\ \A j \in 1..67 : collected_data[k][j] = 0

C4_Witness ==
  /\ worker = "cp2130"
  /\ \E k \in 1..Len(emitted) :
       /\ At(emitted[k], 1) # 198
       /\ \E j \in 2..199 : At(emitted[k], j) # 0

\* C5: the table written by stop() has one row per packet processed in the
\* run that stop() ends, so its row count equals sampleCount.
C5_RowsEqualSampleCount ==
  (worker = "cp2130" /\ last.op = "stop" /\ last.wrote /\ ~last.csvFail) =>
    /\ disk.exists
    /\ Len(disk.rows) = sample_count
    /\ Len(disk.crc) = sample_count

\* C6: errorCount is the number of recorded rows whose CRC flag is set, and
\* the flag of row k is set exactly when packet k has byte[1] # 198.
C6_ErrorCountMatchesFlags ==
  worker = "cp2130" =>
    /\ crc_count = Cardinality({k \in 1..Len(crc_flags) : crc_flags[k]})
    /\ Len(crc_flags) = Len(emitted)
    /\ \A k \in 1..Len(crc_flags) : crc_flags[k] <=> (At(emitted[k], 1) # 198)

\* C7: stop() invokes the file write exactly when sampleCount > 0; a session
\* in which no packet was framed ends with sampleCount = 0 and no write, and
\* while no packet was ever framed there is no file.
C7_SaveIffSamples ==
  (worker = "cp2130" /\ last.op = "stop") =>
    /\ last.wrote <=> sample_count > 0
    /\ (last.wasStreaming /\ Len(emitted) = runStart) => (sample_count = 0 /\ ~last.wrote)
    /\ (Len(emitted) = 0) => ~disk.exists

C7_Witness ==
  /\ worker = "cp2130"
  /\ last.op = "stop"
  /\ last.wasStreaming
  /\ devPos > 0
  /\ Len(emitted) = 0
  /\ ~disk.exists

\* C8: a start() from Idle in which a start-sequence action (or the
\* wide-input write) fails emits errorOccurred and leaves the session Idle.
C8_StartFailureReported ==
  (last.op = "start" /\ ~last.wasStreaming /\ (last.seqFail \/ last.wideFail)) =>
    /\ last.err
    /\ ~StreamingNow

\* C9: with wideInput, start() issues the register write before anything
\* else; when that write fails, errorOccurred is emitted once, nothing else
\* is sent to the device, and sampleCount, errorCount, the records, the
\* buffer and the session state are unchanged.
C9_WideInputFailureAborts ==
  [][ (worker = "cp2130" /\ wideInput /\ calls' = calls + 1 /\ last'.op = "start") =>
        /\ Len(hwLog') > Len(hwLog)
        /\ hwLog'[Len(hwLog) + 1] = "writeReg(0,0x0C,1)"
        /\ last'.wideFail =>
             /\ errors' = errors + 1
             /\ hwLog' = Append(hwLog, "writeReg(0,0x0C,1)")
             /\ UNCHANGED << sample_count, crc_count, collected_data, crc_flags,
                             buffer, streaming, disk, cpHandle >>
    ]_vars

C9_Witness ==
  /\ worker = "cp2130"
  /\ wideInput
  /\ last.op = "start"
  /\ last.wideFail
  /\ sample_count > 0
  /\ buffer # << >>

\* C10: start() called while the session is not Idle is rejected: neither
\* the start sequence nor the opening of the transport is executed again.
C10_StartRejectedUnlessIdle ==
  (last.op = "start" /\ last.wasStreaming) => ~last.ranSeq

Count(seq, x) == Cardinality({k \in 1..Len(seq) : seq[k] = x})

Suffix(seq, n) == SubSeq(seq, Len(seq) - n + 1, Len(seq))

\* C11: a stop() that directly follows a stop() is a no-op: it sends nothing
\* to the device and leaves sampleCount, errorCount and the persisted file
\* as they were.
C11_SecondStopIsNoOp ==
  [][ (worker = "cp2130" /\ last.op = "stop" /\ last'.op = "stop" /\ calls' = calls + 1) =>
        /\ hwLog' = hwLog
        /\ UNCHANGED << sample_count, crc_count, disk >>
    ]_vars

\* C12: the stop() that ends a run releases the transport handle, whatever
\* fails in the stop sequence or in the persistence step, and a stop() that
\* follows a stop() does not release it again.
C12_ReleasedExactlyOnce ==
  [][ (worker = "cp2130" /\ last'.op = "stop" /\ calls' = calls + 1) =>
        IF last.op = "stop"
          THEN Count(hwLog', "exit_cp2130") = Count(hwLog, "exit_cp2130")
          ELSE /\ Count(hwLog', "exit_cp2130") = Count(hwLog, "exit_cp2130") + 1
               /\ cpHandle' = "released"
    ]_vars

\* C16: with either descriptor a completed start() has sent flush-FIFO,
\* delay, start-stream, in that order, and a stop() has sent stop-stream,
\* delay, before the handle is released.
C16_SequencesExecutedInOrder ==
  worker = "cp2130" =>
    /\ (last.op = "start" /\ last.ranSeq) =>
         /\ Len(hwLog) >= 3
         /\ Suffix(hwLog, 3) = << "flush_radio_fifo", "sleep", "startStream" >>
    /\ (last.op = "stop") =>
         LET sent == IF hwLog # << >> /\ hwLog[Len(hwLog)] = "exit_cp2130"
                       THEN SubSeq(hwLog, 1, Len(hwLog) - 1) ELSE hwLog
         IN  /\ Len(sent) >= 2
             /\ Suffix(sent, 2) = << "stopStream", "sleep" >>

\* C17: after a start() that ran to its end, sampleCount and errorCount are
\* zero and the records (rows and CRC flags) are empty.
C17_StartResetsRun ==
  (worker = "cp2130" /\ last.op = "start" /\ last.ranSeq) =>
    /\ sample_count = 0
    /\ crc_count = 0
    /\ collected_data = << >>
    /\ crc_flags = << >>

\* C13: once stopCollecting has called CP2130Reader.stop(), the reader
\* eventually leaves run() and stopCollecting returns.
C13_StopReturns ==
  (worker = "spi_usb" /\ mainPc = "wait") ~> (mainPc = "idle" /\ thread.pc \in {"none", "done"})

\* C14: while the reader thread has not left run() the interface is still
\* claimed and the handle still held: no transfer follows the release.
C14_NoTransferAfterRelease ==
  (worker = "spi_usb" /\ thread.pc \in {"started", "loop", "io"}) =>
    /\ handle = "dev"
    /\ claimed

C14_Witness ==
  /\ worker = "spi_usb"
  /\ last.op = "stop"
  /\ thread.pc = "done"
  /\ readLog # << >>
  /\ handle = "None"
  /\ ~claimed

\* C15: after every poll tick the buffer holds fewer than packetSize bytes.
C15_BufferDrained ==
  (last.op = "poll") => Len(buffer) < packetSize(worker)

\* C18: a failed transfer in the reader loop is reported and the reader goes
\* back to the head of its loop.
C18_ReaderSurvivesFailedTransfer ==
  [][ (worker = "spi_usb" /\ thread.pc = "io" /\ thread' # thread /\ errors' = errors + 1) =>
        thread'.pc = "loop"
    ]_vars

\* C19: the file one run persisted is never overwritten by another run: a
\* write onto an existing file comes from the run that wrote that file.
C19_NoOverwriteAcrossRuns ==
  [][ (worker = "cp2130" /\ disk.exists /\ disk' # disk) => disk'.run = disk.run ]_vars

\* C20: a poll tick whose read returns zero bytes emits no packet and no
\* error and leaves buffer, sampleCount, errorCount and the records
\* unchanged; a zero-byte bulkRead of the reader enqueues nothing and is not
\* reported, and a tick that finds the queue empty changes nothing either.
C20_EmptyReadChangesNothing ==
  [][ /\ (worker = "cp2130" /\ last'.op = "poll" /\ last'.got = 0) =>
           UNCHANGED << buffer, emitted, errors, sample_count, crc_count,
                        collected_data, crc_flags, disk >>
      /\ (worker = "spi_usb" /\ last'.op = "poll" /\ last'.got = 0 /\ thread' = thread) =>
           UNCHANGED << buffer, emitted, errors >>
      /\ (worker = "spi_usb" /\ thread.pc = "io" /\ thread'.pc = "loop" /\ devPos' = devPos) =>
           UNCHANGED << sampleQueue, buffer, emitted, errors >>
    ]_vars

C20_Witness ==
  /\ worker = "cp2130"
  /\ last.op = "poll"
  /\ last.got = 0
  /\ Len(buffer) >= cpPacketSize
  /\ sample_count > 0

\* C21: as long as no read since the buffer was last empty returned more than
\* packetSize bytes, the `if` framing of Cp2130DataSourceWorker._collectData
\* has, after every tick, emitted exactly the packets and kept exactly the
\* remainder that the `while` framing of USBSpiDataSourceWorker._collectData
\* produces on the same bytes, and its buffer holds fewer than packetSize
\* bytes.
C21_IfFramingRefinesWhile ==
  (worker = "cp2130" /\ ~longRead) =>
    LET ref == Frame(ingested, << >>, cpPacketSize)
    IN  /\ RunPackets = ref.packets
        /\ buffer = ref.buffer
        /\ Len(buffer) < cpPacketSize

C21_Witness ==
  /\ worker = "cp2130"
  /\ ~longRead
  /\ last.op = "poll"
  /\ last.got = cpPacketSize
  /\ Len(RunPackets) >= 2
  /\ buffer # << >>

\* C22: every packet a USBSpiDataSourceWorker emits in a run is made of bytes
\* its reader read after that run's start, and once stopCollecting has
\* returned neither the hand-off queue nor the buffer holds any byte.
C22_RunsDoNotShareBytes ==
  worker = "spi_usb" =>
    /\ LET base == Len(delivered) - Len(ingested)
       IN  \A k \in 1..Len(RunPackets) :
             base + (k - 1) * spiPacketSize >= readStart
    /\ (last.op = "stop") => (sampleQueue = << >> /\ buffer = << >>)

====
